---- MODULE Spec2Model ----
(***************************************************************************)
(* Model of the Ethereal search driver (src/src/search.c): get_best_move,  *)
(* alpha_beta_prune, quiescence_search, evaluate_board, order_by_value,    *)
(* basic_heuristic and update_killer_heuristic; of the tuner's             *)
(* runTexelTuning loop, initTexelEntries, updateMemory,                    *)
(* shuffleTexelEntries and updateGradient (src/src/texel.c); and of the    *)
(* castle keys of initZobrist (src/src/zobrist.c).  Each routine has a     *)
(* specification of its own: Spec, SpecGrad, SpecEval, SpecZobrist,        *)
(* SpecEntries, SpecTune, SpecMemory.                                      *)
(*                                                                         *)
(* The board module (board.h, move.h, piece.h, evaluate.h) is not part of  *)
(* the sources at hand.  It is modelled from its interface as a small      *)
(* chess on a single file of NumSquares squares with kings, rooks and      *)
(* knights: moves are pseudo-legal, apply_move/revert_move work from the   *)
(* packed move alone, is_not_in_check is the legality filter.              *)
(***************************************************************************)
EXTENDS Integers, Sequences, FiniteSets, TLC

(***************************************************************************)
(* Bounds of the model.                                                    *)
(***************************************************************************)
NumSquares == 6      \* squares of the board, 0 .. NumSquares-1
MaxDepth == 4        \* iterative deepening runs depth = 1 .. MaxDepth-1
MaxTime == 11        \* the clock takes the values 0 .. MaxTime

(***************************************************************************)
(* Program constants.                                                      *)
(***************************************************************************)
HardAllotedTime == 10      \* search.c:21
CheckMate == 32000
PawnValue == 100
KnightValue == 300
BishopValue == 310
RookValue == 500
QueenValue == 900

ColourWhite == 0
ColourBlack == 1
ColourNone == 2

\* piece.h: a piece is its type flag plus its colour; Empty has no colour.
PawnFlag == 4
KnightFlag == 8
BishopFlag == 12
RookFlag == 16
QueenFlag == 20
KingFlag == 24
Empty == 30

Squares == 0 .. (NumSquares - 1)
MaxPly == MaxDepth + NumSquares
MaxMoves == 2 * NumSquares

MakePiece(flag, colour) == flag + colour
PIECE_TYPE(p) == (p \div 4) * 4
PIECE_COLOUR(p) == IF p = Empty THEN ColourNone ELSE p % 4
IS_EMPTY(p) == p = Empty

WK == MakePiece(KingFlag, ColourWhite)
WR == MakePiece(RookFlag, ColourWhite)
WN == MakePiece(KnightFlag, ColourWhite)
BK == MakePiece(KingFlag, ColourBlack)
BR == MakePiece(RookFlag, ColourBlack)
BN == MakePiece(KnightFlag, ColourBlack)

Other(colour) == 1 - colour

Abs(x) == IF x < 0 THEN -x ELSE x
Min(a, b) == IF a < b THEN a ELSE b

(***************************************************************************)
(* move.h: a move is a packed scalar of from-square, to-square and the     *)
(* captured piece (Empty for a quiet move).                                *)
(***************************************************************************)
MakeMove(from, to, cap) == from + 64 * to + 4096 * cap
MOVE_GET_FROM(m) == m % 64
MOVE_GET_TO(m) == (m \div 64) % 64
MOVE_GET_CAPTURE(m) == m \div 4096

\* A value no generated move has (from = to = 0, capture 0).
NoMove == MakeMove(0, 0, 0)

(***************************************************************************)
(* board.h: the board is the side to move and the piece on every square.   *)
(***************************************************************************)
Between(a, b) == { s \in Squares : (a < s /\ s < b) \/ (b < s /\ s < a) }

\* Does the piece standing on square from attack square sq?
Attacks(squares, from, sq) ==
    LET t == PIECE_TYPE(squares[from]) IN
    /\ from # sq
    /\ CASE t = KingFlag -> Abs(sq - from) = 1
         [] t = KnightFlag -> Abs(sq - from) = 2
         [] t = RookFlag -> \A s \in Between(from, sq) : IS_EMPTY(squares[s])
         [] OTHER -> FALSE

\* The pseudo-legal moves of the side to move as a set.
MoveSet(board) ==
    { MakeMove(f, t, board.squares[t]) : <<f, t>> \in
        { ft \in Squares \X Squares :
            /\ PIECE_COLOUR(board.squares[ft[1]]) = board.turn
            /\ PIECE_COLOUR(board.squares[ft[2]]) # board.turn
            /\ Attacks(board.squares, ft[1], ft[2]) } }

\* A value computed once and used in F.  (TLC computes a LET definition at
\* each of its uses when it evaluates ENABLED; a bound variable is a value.)
With(v, F(_)) == CHOOSE r \in { F(x) : x \in {v} } : TRUE

\* gen_all_moves: the move buffer, by from-square then to-square.
MoveKey(m) == MOVE_GET_FROM(m) * 64 + MOVE_GET_TO(m)

SortedMoves(ms) ==
    [n \in 1 .. Cardinality(ms) |->
        CHOOSE m \in ms : Cardinality({ x \in ms : MoveKey(x) < MoveKey(m) }) = n - 1]

gen_all_moves(board) == With(MoveSet(board), LAMBDA ms : SortedMoves(ms))

\* gen_all_captures: the pseudo-legal moves that capture.
gen_all_captures(board) ==
    SelectSeq(gen_all_moves(board), LAMBDA m : ~IS_EMPTY(MOVE_GET_CAPTURE(m)))

apply_move(board, m) ==
    [turn |-> Other(board.turn),
     squares |-> [board.squares EXCEPT ![MOVE_GET_TO(m)] = board.squares[MOVE_GET_FROM(m)],
                                       ![MOVE_GET_FROM(m)] = Empty]]

revert_move(board, m) ==
    [turn |-> Other(board.turn),
     squares |-> [board.squares EXCEPT ![MOVE_GET_FROM(m)] = board.squares[MOVE_GET_TO(m)],
                                       ![MOVE_GET_TO(m)] = MOVE_GET_CAPTURE(m)]]

\* is_not_in_check(board, colour): no piece of the other side attacks the king.
is_not_in_check(board, colour) ==
    \E k \in Squares :
        /\ board.squares[k] = MakePiece(KingFlag, colour)
        /\ \A f \in Squares :
              PIECE_COLOUR(board.squares[f]) = Other(colour)
                  => ~Attacks(board.squares, f, k)

IsLegal(board, m) ==
    /\ m \in MoveSet(board)
    /\ is_not_in_check(apply_move(board, m), board.turn)

LegalMoves(board) == { m \in MoveSet(board) : IsLegal(board, m) }

(***************************************************************************)
(* C arrays are sequences read and written at 0-based indices.             *)
(***************************************************************************)
At(arr, i) == arr[i + 1]
Put(arr, i, v) == [arr EXCEPT ![i + 1] = v]

(***************************************************************************)
(* evaluate.h: the piece-square tables.                                    *)
(***************************************************************************)
Centre(sq) == Min(sq, NumSquares - 1 - sq)
QUEEN_POSITION_VALUE(sq) == Centre(sq)
ROOK_POSITION_VALUE(sq) == 2 * Centre(sq)
BISHOP_POSITION_VALUE(sq) == 5 * Centre(sq)
KNIGHT_POSITION_VALUE(sq) == 10 * Centre(sq)
WHITE_PAWN_POSITION_VALUE(sq) == 5 * sq
BLACK_PAWN_POSITION_VALUE(sq) == 5 * (NumSquares - 1 - sq)

\* board->piece_locations[c][1..]: the squares of c's pieces other than king and pawns.
piece_locations(board, c) ==
    { s \in Squares : /\ PIECE_COLOUR(board.squares[s]) = c
                      /\ PIECE_TYPE(board.squares[s]) \notin {KingFlag, PawnFlag} }

pawn_locations(board, c) ==
    { s \in Squares : board.squares[s] = MakePiece(PawnFlag, c) }

pawn_counts(board, c) == Cardinality(pawn_locations(board, c))

\* search.c:206-211, 215-220: the switch over the piece type.
PieceScore(board, loc) ==
    LET t == PIECE_TYPE(board.squares[loc]) IN
    CASE t = QueenFlag -> QueenValue + QUEEN_POSITION_VALUE(loc)
      [] t = RookFlag -> RookValue + ROOK_POSITION_VALUE(loc)
      [] t = BishopFlag -> BishopValue + BISHOP_POSITION_VALUE(loc)
      [] t = KnightFlag -> KnightValue + KNIGHT_POSITION_VALUE(loc)
      [] OTHER -> 0

\* search.c:227-230, 234-237: the pawn table is chosen by the side to move.
PawnScore(turn, loc) ==
    IF turn = ColourWhite THEN WHITE_PAWN_POSITION_VALUE(loc)
    ELSE IF turn = ColourBlack THEN BLACK_PAWN_POSITION_VALUE(loc)
    ELSE 0

\* The loops over a location list, search.c:205, 214, 226, 233.
RECURSIVE SumPieces(_, _)
SumPieces(board, S) ==
    IF S = {} THEN 0
    ELSE LET loc == CHOOSE y \in S : TRUE
         IN PieceScore(board, loc) + SumPieces(board, S \ {loc})

RECURSIVE SumPawns(_, _)
SumPawns(turn, S) ==
    IF S = {} THEN 0
    ELSE LET loc == CHOOSE y \in S : TRUE
         IN PawnScore(turn, loc) + SumPawns(turn, S \ {loc})

evaluate_board(board) ==
    LET turn == board.turn
    IN  SumPieces(board, piece_locations(board, turn))
      - SumPieces(board, piece_locations(board, Other(turn)))
      + PawnValue * (pawn_counts(board, turn) - pawn_counts(board, Other(turn)))
      + SumPawns(turn, pawn_locations(board, turn))
      - SumPawns(turn, pawn_locations(board, Other(turn)))

(***************************************************************************)
(* order_by_value: the exchange sort of search.c:243-260, on the first     *)
(* size cells of moves and values; both arrays are permuted.               *)
(***************************************************************************)
Swap(arr, i, j) == [arr EXCEPT ![i + 1] = arr[j + 1], ![j + 1] = arr[i + 1]]

\* search.c:249-257: cells i and j are exchanged when values[j] > values[i].
Exchange(mv, i, j) ==
    IF At(mv.values, j) > At(mv.values, i)
    THEN [moves |-> Swap(mv.moves, i, j), values |-> Swap(mv.values, i, j)]
    ELSE mv

\* search.c:248: the inner loop from j on.
RECURSIVE OrderInner(_, _, _, _)
OrderInner(mv, i, j, size) ==
    IF j >= size THEN mv
    ELSE With(Exchange(mv, i, j), LAMBDA nx : OrderInner(nx, i, j + 1, size))

\* search.c:247: the outer loop from i on.
RECURSIVE OrderOuter(_, _, _)
OrderOuter(mv, i, size) ==
    IF i >= size THEN mv
    ELSE With(OrderInner(mv, i, i + 1, size), LAMBDA nx : OrderOuter(nx, i + 1, size))

order_by_value(moves, values, size) ==
    With([moves |-> moves, values |-> values], LAMBDA mv : OrderOuter(mv, 0, size))

(***************************************************************************)
(* basic_heuristic, search.c:262-282: capture ratio, killer bonuses and    *)
(* the bonus of the stored PV move; returns the reordered moves.           *)
(***************************************************************************)
HeuristicValue(tree, m) ==
    LET arr == tree.killer_moves[tree.ply]
        cap == MOVE_GET_CAPTURE(m)
    IN  ((IF IS_EMPTY(cap) THEN 0 ELSE 1) * cap)
            \div tree.board.squares[MOVE_GET_FROM(m)]
      + (IF At(arr, 0) = m THEN 1500
         ELSE IF At(arr, 1) = m THEN 1000
         ELSE IF At(arr, 2) = m THEN 500
         ELSE 0)
      + (IF m = At(tree.principle_variation.line, tree.ply - 1) THEN 30000 ELSE 0)

basic_heuristic(tree, moves, size) ==
    With(moves, LAMBDA ms :
        order_by_value(ms, [n \in 1 .. size |-> HeuristicValue(tree, ms[n])], size).moves)

\* update_killer_heuristic, search.c:284-289.
update_killer_heuristic(tree, move) ==
    LET arr == tree.killer_moves[tree.ply]
    IN  [tree EXCEPT !.killer_moves[tree.ply] =
            <<move, At(arr, 0), At(arr, 1)>>]

(***************************************************************************)
(* State.                                                                  *)
(***************************************************************************)
VARIABLES
    board,             \* the position handed to get_best_move
    alloted_time,      \* get_best_move's parameter / local
    now,               \* the value time(NULL) last returned
    StartTime, EndTime, EvaluatingPlayer,    \* search.c:16-17
    gpc,               \* where get_best_move stands
    depth,             \* its loop variable
    tree,              \* its search_tree_t
    stack,             \* the alpha_beta_prune / quiescence_search activations
    garbage,           \* the move value found in memory never written
    result,            \* the move get_best_move returned
    aborted,           \* has a node of the running iteration seen the deadline pass?
    completed,         \* iterations that ran to their end with no such node
    committed,         \* the principal variation as the last such iteration left it
    prev_root          \* the root's moves and their scores as the last such iteration left them

searchVars == <<board, alloted_time, now, StartTime, EndTime, EvaluatingPlayer, gpc,
                depth, tree, stack, garbage, result, aborted, completed, committed,
                prev_root>>

\* The tuner, texel.c.
VARIABLES
    tes,               \* the TexelEntry array
    gradient,          \* updateGradient's shared gradient, gradient[term][phase]
    gradient0,         \* the gradient as updateGradient was called with it
    local,             \* each thread's local vector
    upc,               \* where updateGradient stands
    tpc,               \* where each thread of the parallel region stands
    tnext,             \* the next loop index a thread looks at
    tcell,             \* the cell of the combine loop a thread is at
    treg               \* the value of the shared cell a thread has read

tunerVars == <<tes, gradient, gradient0, local, upc, tpc, tnext, tcell, treg>>

\* evaluate_board called on its own, search.c:200-241.
VARIABLES
    eboard,            \* the board_t evaluate_board is called with
    evalue             \* the value it returned

evalVars == <<eboard, evalue>>

\* initZobrist, zobrist.c:45-91.
VARIABLES
    ZobristCastleKeys, \* uint64_t ZobristCastleKeys[0x10], KeyBits wide here
    zpc,               \* where initZobrist stands
    cr,                \* the loop variable of zobrist.c:74
    drawn              \* the values rand64 returned at zobrist.c:68-71, in order

zobristVars == <<ZobristCastleKeys, zpc, cr, drawn>>

\* initTexelEntries, texel.c:155-228; the entries it stores go to tes.
VARIABLES
    tokens,            \* the result token of each line fgets has returned, in order
    ipc                \* where initTexelEntries stands

entryVars == <<tokens, ipc>>

\* The training loop of runTexelTuning, texel.c:123-152; it works on tes.
VARIABLES
    rpc,               \* where the loop stands
    iteration,         \* int iteration
    best_error,        \* double best
    drops,             \* rate is LEARNING / LRDROPRATE ^ drops
    si,                \* the loop variable i of shuffleTexelEntries
    batch,             \* the loop variable of texel.c:141
    processed,         \* per entry, the updateGradient calls of this pass that read it
    errors             \* the values completeLinearError has returned, in order

tuneVars == <<rpc, iteration, best_error, drops, si, batch, processed, errors>>

\* The tuple arena of updateMemory, texel.c:41-42, 254-271.
VARIABLES
    TupleStack,        \* TexelTuple *TupleStack: a chunk and an offset into it
    TupleStackSize,    \* int TupleStackSize
    chunks,            \* the chunks calloc has handed out
    slices             \* te->tuples and te->ntuples of each entry served, in order

memoryVars == <<TupleStack, TupleStackSize, chunks, slices>>

\* The state of the routines checked on their own.
libVars == <<evalVars, zobristVars, entryVars, tuneVars, memoryVars>>

\* The tuner's state other than the entries.
notTes == <<gradient, gradient0, local, upc, tpc, tnext, tcell, treg>>

\* What the calls of one routine leave alone.
notEval == <<searchVars, tunerVars, zobristVars, entryVars, tuneVars, memoryVars>>
notZobrist == <<searchVars, tunerVars, evalVars, entryVars, tuneVars, memoryVars>>
notEntries == <<searchVars, notTes, evalVars, zobristVars, tuneVars, memoryVars>>
notTune == <<searchVars, notTes, evalVars, zobristVars, entryVars, memoryVars>>
notMemory == <<searchVars, tunerVars, evalVars, zobristVars, entryVars, tuneVars>>

vars == <<searchVars, tunerVars, libVars>>

\* The deadline test with the comparison turned around.
ExpiredReversed(end, t) == end > t

\* The condition of search.c:62, 87, 162.
Expired(end, t) == end < t

\* The value returned on expiry, search.c:89, 163.
AbortScore(tr, player) ==
    IF tr.board.turn = player THEN -CheckMate ELSE CheckMate

\* A principle_variation_t whose length was never written.
UninitPV(g) == [init |-> FALSE, length |-> 0, line |-> [n \in 1 .. MaxPly |-> g]]

\* The lengths an unwritten length field is taken to hold.
GarbageLengths == {-1, 0, 1}

\* An activation record of alpha_beta_prune ("ab") or quiescence_search ("qs").
\* board0, ply0 and timedout record the board and ply at entry and whether
\* the call ended on the deadline test at its entry; wrote, whether the call
\* has assigned pv->length.
NewFrame(fn, d, alpha, beta, tr, g) ==
    [fn |-> fn, pc |-> "entry", depth |-> d, alpha |-> alpha, beta |-> beta,
     moves |-> << >>, size |-> 0, i |-> 0, value |-> 0, best |-> 0,
     valid_size |-> 0, first_node_was_pv |-> FALSE, lpv |-> UninitPV(g),
     ret |-> 0, board0 |-> tr.board, ply0 |-> tr.ply, timedout |-> FALSE,
     alpha0 |-> alpha, beta0 |-> beta, wrote |-> FALSE]

Top == stack[Len(stack)]
Pop(stk) == SubSeq(stk, 1, Len(stk) - 1)
SetTop(stk, f) == [stk EXCEPT ![Len(stk)] = f]

\* The principle_variation_t that activation k writes through its pv pointer:
\* the tree's for the root call (search.c:41), the caller's lpv otherwise.
PVOf(tr, stk, k) == IF k = 1 THEN tr.principle_variation ELSE stk[k - 1].lpv

WithPV(tr, stk, k, pv) ==
    IF k = 1 THEN [tree |-> [tr EXCEPT !.principle_variation = pv], stack |-> stk]
    ELSE [tree |-> tr, stack |-> [stk EXCEPT ![k - 1].lpv = pv]]

(***************************************************************************)
(* The positions get_best_move is called on.                               *)
(***************************************************************************)
Place(turn, pieces) ==
    [turn |-> turn,
     squares |-> [s \in Squares |-> IF s \in DOMAIN pieces THEN pieces[s] ELSE Empty]]

RootBoards ==
    { Place(ColourWhite, (0 :> WK) @@ (1 :> WN) @@ (2 :> WR) @@ (3 :> BN) @@ (5 :> BK)),
      Place(ColourWhite, (0 :> WK) @@ (2 :> BK) @@ (3 :> WN) @@ (4 :> WR)),
      Place(ColourBlack, (0 :> WK) @@ (1 :> WN) @@ (3 :> BR) @@ (5 :> BK)),
      Place(ColourBlack, (0 :> WK) @@ (1 :> WN) @@ (2 :> WR) @@ (3 :> BN) @@ (5 :> BK)),
      Place(ColourWhite, (0 :> BR) @@ (1 :> WR) @@ (2 :> WK) @@ (5 :> BK)) }

CallerBudgets == {1, HardAllotedTime}

GarbageMoves == {NoMove, MakeMove(2, 3, BN)}

GarbageValues == { [n \in 1 .. MaxMoves |-> 0], [n \in 1 .. MaxMoves |-> n] }

\* The tuner is not running.
TunerIdle ==
    /\ tes = << >>
    /\ gradient = << >>
    /\ gradient0 = << >>
    /\ local = << >>
    /\ upc = "idle"
    /\ tpc = << >>
    /\ tnext = << >>
    /\ tcell = << >>
    /\ treg = << >>

SearchInit ==
    /\ board \in RootBoards
    /\ alloted_time \in CallerBudgets
    /\ now = 0
    /\ StartTime = 0
    /\ EndTime = 0
    /\ EvaluatingPlayer = ColourWhite
    /\ gpc = "start"
    /\ depth = 0
    /\ garbage \in GarbageMoves
    /\ \E dov \in GarbageValues :
         tree = [ply |-> 0, raw_nodes |-> 0, alpha_beta_nodes |-> 0,
                 quiescence_nodes |-> 0, board |-> board,
                 principle_variation |-> UninitPV(garbage),
                 killer_moves |-> [p \in 0 .. MaxPly |-> <<garbage, garbage, garbage>>],
                 depth_one_values |-> dov]
    /\ stack = << >>
    /\ result = NoMove
    /\ aborted = FALSE
    /\ completed = 0
    /\ committed = UninitPV(garbage)
    /\ prev_root = [moves |-> << >>, values |-> << >>]

\* evaluate_board is not called on its own.
EvalIdle ==
    /\ eboard = Place(ColourWhite, (0 :> WK) @@ (2 :> BK))
    /\ evalue = 0

\* zobrist.c:29: the table as the loader zeroes it, initZobrist not called.
ZobristIdle ==
    /\ ZobristCastleKeys = [k \in 0 .. 15 |-> 0]
    /\ zpc = "idle"
    /\ cr = 0
    /\ drawn = << >>

\* initTexelEntries is not called.
EntriesIdle ==
    /\ tokens = << >>
    /\ ipc = "idle"

\* runTexelTuning is not called.
TuneIdle ==
    /\ rpc = "idle"
    /\ iteration = -1
    /\ best_error = 0
    /\ drops = 0
    /\ si = 0
    /\ batch = 0
    /\ processed = << >>
    /\ errors = << >>

STACKSIZE == 4

\* texel.c:41-42: the arena before runTexelTuning allocates it; chunk 0 is NULL.
MemoryIdle ==
    /\ TupleStack = [chunk |-> 0, off |-> 0]
    /\ TupleStackSize = STACKSIZE
    /\ chunks = 0
    /\ slices = << >>

LibIdle == EvalIdle /\ ZobristIdle /\ EntriesIdle /\ TuneIdle /\ MemoryIdle

Init == SearchInit /\ TunerIdle /\ LibIdle

\* init_search_tree_t, search.c:70-77.
init_search_tree_t(tr, b) ==
    [tr EXCEPT !.ply = 0, !.raw_nodes = 0, !.alpha_beta_nodes = 0,
               !.quiescence_nodes = 0, !.board = b,
               !.principle_variation.length = 0,
               !.principle_variation.init = TRUE]

\* search.c:21: the budget the deadline is computed from.
Budget(caller) == HardAllotedTime

\* get_best_move up to its loop, search.c:19-33.
Start ==
    /\ gpc = "start"
    /\ alloted_time' = Budget(alloted_time)
    /\ StartTime' = now
    /\ EndTime' = now + alloted_time'
    /\ EvaluatingPlayer' = board.turn
    /\ tree' = init_search_tree_t(tree, board)
    /\ depth' = 1
    /\ gpc' = "loop"
    /\ UNCHANGED prev_root
    /\ UNCHANGED <<tunerVars, libVars>>
    /\ UNCHANGED <<board, now, stack, garbage, result, aborted, completed, committed>>

\* The loop test of search.c:35.
LoopTest(d) == d < MaxDepth

\* search.c:35-41: the loop test and the root call.
IterCall ==
    /\ gpc = "loop"
    /\ IF LoopTest(depth)
       THEN /\ stack' = <<NewFrame("ab", depth, -CheckMate, CheckMate, tree, garbage)>>
            /\ gpc' = "search"
            /\ aborted' = FALSE
       ELSE /\ gpc' = "exit"
            /\ UNCHANGED <<stack, aborted>>
    /\ UNCHANGED prev_root
    /\ UNCHANGED <<tunerVars, libVars>>
    /\ UNCHANGED <<board, alloted_time, now, StartTime, EndTime, EvaluatingPlayer,
                   depth, tree, garbage, result, completed, committed>>

\* search.c:43-63: the root call has returned; the deadline test and depth++.
IterEnd ==
    /\ gpc = "search"
    /\ Len(stack) = 1
    /\ Top.pc = "ret"
    /\ stack' = << >>
    /\ \E t \in now .. MaxTime :
         /\ now' = t
         /\ IF Expired(EndTime, t)
            THEN gpc' = "exit" /\ depth' = depth
            ELSE gpc' = "loop" /\ depth' = depth + 1
    /\ IF aborted
       THEN UNCHANGED <<completed, committed, prev_root>>
       ELSE /\ completed' = completed + 1
            /\ committed' = tree.principle_variation
            /\ prev_root' = [moves |-> Top.moves, values |-> tree.depth_one_values]
    /\ UNCHANGED <<tunerVars, libVars>>
    /\ UNCHANGED <<board, alloted_time, StartTime, EndTime, EvaluatingPlayer,
                   tree, garbage, result, aborted>>

\* search.c:65-67.
Return ==
    /\ gpc = "exit"
    /\ result' = At(tree.principle_variation.line, 0)
    /\ gpc' = "returned"
    /\ UNCHANGED prev_root
    /\ UNCHANGED <<tunerVars, libVars>>
    /\ UNCHANGED <<board, alloted_time, now, StartTime, EndTime, EvaluatingPlayer,
                   depth, tree, stack, garbage, aborted, completed, committed>>

(***************************************************************************)
(* alpha_beta_prune, search.c:79-155.                                      *)
(***************************************************************************)
Running == gpc = "search" /\ stack # << >>

\* search.c:103-107: generation and ordering of the moves of a node.
\* At the root the values array is permuted with the moves.
OrderMoves(tr) ==
    With(gen_all_moves(tr.board), LAMBDA gen :
      With(IF tr.ply = 1
           THEN order_by_value(gen, tr.depth_one_values, Len(gen))
           ELSE [moves |-> basic_heuristic(tr, gen, Len(gen)),
                 values |-> tr.depth_one_values],
           LAMBDA o :
             LET tr1 == [tr EXCEPT !.depth_one_values = o.values]
             IN [tree |-> tr1, moves |-> basic_heuristic(tr1, o.moves, Len(gen))]))

\* search.c:99-111: the node is searched; f is its activation.
ABSetup(tr, f, g) ==
    With(OrderMoves([tr EXCEPT !.ply = @ + 1]), LAMBDA o :
        LET size == Len(o.moves)
            first == IF size > 0 THEN At(o.moves, 0) ELSE g
        IN [tree |-> o.tree,
            frame |-> [f EXCEPT !.pc = "loop", !.moves = o.moves, !.size = size,
                                !.i = 0, !.valid_size = 0, !.best = -CheckMate,
                                !.first_node_was_pv =
                                    (At(o.tree.principle_variation.line, o.tree.ply - 1)
                                        = first)]])

\* search.c:81-111.
ABEnter ==
    /\ Running
    /\ Top.fn = "ab"
    /\ Top.pc = "entry"
    /\ \E t \in now .. MaxTime :
        /\ now' = t
        /\ LET k == Len(stack)
               f == Top
               tr1 == [tree EXCEPT !.raw_nodes = @ + 1, !.alpha_beta_nodes = @ + 1]
           IN IF Expired(EndTime, t)
              THEN LET f1 == [f EXCEPT !.pc = "ret", !.timedout = TRUE, !.wrote = TRUE,
                                       !.ret = AbortScore(tr1, EvaluatingPlayer)]
                       w == WithPV(tr1, SetTop(stack, f1), k,
                                   [PVOf(tr1, stack, k) EXCEPT !.length = -1, !.init = TRUE])
                   IN /\ tree' = w.tree
                      /\ stack' = w.stack
                      /\ aborted' = TRUE
              ELSE IF f.depth = 0
              THEN LET tr2 == [tr1 EXCEPT !.raw_nodes = @ - 1, !.alpha_beta_nodes = @ - 1]
                       w == WithPV(tr2, SetTop(stack, [f EXCEPT !.pc = "tail", !.wrote = TRUE]), k,
                                   [PVOf(tr2, stack, k) EXCEPT !.length = 0, !.init = TRUE])
                   IN /\ tree' = w.tree
                      /\ stack' = Append(w.stack,
                                         NewFrame("qs", 0, f.alpha, f.beta, w.tree, garbage))
                      /\ UNCHANGED aborted
              ELSE \E r \in {ABSetup(tr1, f, garbage)} :
                      /\ tree' = r.tree
                      /\ stack' = SetTop(stack, r.frame)
                      /\ UNCHANGED aborted
    /\ UNCHANGED prev_root
    /\ UNCHANGED <<tunerVars, libVars>>
    /\ UNCHANGED <<board, alloted_time, StartTime, EndTime, EvaluatingPlayer, gpc,
                   depth, garbage, result, completed, committed>>

\* A terminal test that forgets the stalemate score.
TerminalBestNoStalemate(valid_size, b, best) == best

\* search.c:150-151.
TerminalBest(valid_size, b, best) ==
    IF valid_size = 0 /\ is_not_in_check(b, b.turn) THEN 0 ELSE best

\* A return that leaves ply as the move loop had it.
ABFinishKeepPly(tr, f) ==
    [tree |-> tr,
     frame |-> [f EXCEPT !.pc = "ret",
                         !.ret = TerminalBest(f.valid_size, tr.board, f.best)]]

\* search.c:150-154.
ABFinish(tr, f) ==
    [tree |-> [tr EXCEPT !.ply = @ - 1],
     frame |-> [f EXCEPT !.pc = "ret",
                         !.ret = TerminalBest(f.valid_size, tr.board, f.best)]]

\* search.c:117-123: the window of the first search of the move at index i.
IsScout(f) == f.i # 0 /\ f.first_node_was_pv

\* search.c:112-123 and 147-154: the next move is tried, or the loop is left.
ABLoop ==
    /\ Running
    /\ Top.fn = "ab"
    /\ Top.pc \in {"loop", "break"}
    /\ LET f == Top
       IN IF f.pc = "loop" /\ f.i < f.size
          THEN LET m == At(f.moves, f.i)
                   b1 == apply_move(tree.board, m)
                   tr1 == [tree EXCEPT !.board = b1]
               IN IF is_not_in_check(b1, Other(b1.turn))
                  THEN LET child == IF IsScout(f)
                                    THEN NewFrame("ab", f.depth - 1, -f.alpha - 1, -f.alpha,
                                                  tr1, garbage)
                                    ELSE NewFrame("ab", f.depth - 1, -f.beta, -f.alpha,
                                                  tr1, garbage)
                           f1 == [f EXCEPT !.valid_size = @ + 1,
                                           !.pc = IF IsScout(f) THEN "scout" ELSE "full"]
                       IN /\ tree' = tr1
                          /\ stack' = Append(SetTop(stack, f1), child)
                  ELSE /\ tree' = [tree EXCEPT !.board = revert_move(b1, m)]
                       /\ stack' = SetTop(stack, [f EXCEPT !.i = @ + 1])
          ELSE LET r == ABFinish(tree, f)
               IN /\ tree' = r.tree
                  /\ stack' = SetTop(stack, r.frame)
    /\ UNCHANGED prev_root
    /\ UNCHANGED <<tunerVars, libVars>>
    /\ UNCHANGED <<board, alloted_time, now, StartTime, EndTime, EvaluatingPlayer, gpc,
                   depth, garbage, result, aborted, completed, committed>>

\* search.c:141, 187: the cutoff test.
Cutoff(alpha, beta) == alpha > beta

\* A cutoff that leaves the loop without taking the move back.
BoardAfterSearchNoRevertOnBreak(b, m, cutoff) ==
    IF cutoff THEN b ELSE revert_move(b, m)

\* search.c:143, 147, 189, 193: the board after the move at hand was searched.
BoardAfterSearch(b, m, cutoff) == revert_move(b, m)

\* search.c:135-137: the caller's line becomes the move followed by the child's.
PrependMove(pv, m, lpv, len) ==
    [pv EXCEPT !.init = TRUE,
               !.length = len + 1,
               !.line = [n \in 1 .. MaxPly |->
                            IF n = 1 THEN m
                            ELSE IF n - 1 <= len THEN lpv.line[n - 1]
                            ELSE pv.line[n]]]

\* search.c:134: is the child's line taken over?
ChildPVValid(len) == len # -1

\* search.c:125-147 for activation k of stk, whose child returned -value;
\* len is the value read from lpv.length when it is read.
ABAfterChild(tr, stk, k, value, len) ==
    LET f == stk[k]
        m == At(f.moves, f.i)
        tr1 == IF tr.ply = 1
               THEN [tr EXCEPT !.depth_one_values = Put(@, f.i, value)]
               ELSE tr
        best1 == IF value > f.best THEN value ELSE f.best
        raised == best1 > f.alpha
        alpha1 == IF raised THEN best1 ELSE f.alpha
        lpv1 == IF raised THEN [f.lpv EXCEPT !.init = TRUE, !.length = len] ELSE f.lpv
        cutoff == Cutoff(alpha1, f.beta)
        tr2 == IF cutoff THEN update_killer_heuristic(tr1, m) ELSE tr1
        tr3 == [tr2 EXCEPT !.board = BoardAfterSearch(tr2.board, m, cutoff)]
        f1 == [f EXCEPT !.value = value, !.best = best1, !.alpha = alpha1,
                        !.lpv = lpv1,
                        !.wrote = @ \/ (raised /\ ChildPVValid(len)),
                        !.pc = IF cutoff THEN "break" ELSE "loop",
                        !.i = IF cutoff THEN @ ELSE @ + 1]
        stk1 == [stk EXCEPT ![k] = f1]
    IN IF raised /\ ChildPVValid(len)
       THEN WithPV(tr3, stk1, k, PrependMove(PVOf(tr3, stk1, k), m, lpv1, len))
       ELSE [tree |-> tr3, stack |-> stk1]

\* search.c:119: is the scouted move searched again?
NeedsResearch(value, alpha, beta) == value > alpha /\ value < beta

\* search.c:118-147: a child call of alpha_beta_prune has returned.
ABChildReturn ==
    /\ Running
    /\ Len(stack) >= 2
    /\ Top.pc = "ret"
    /\ stack[Len(stack) - 1].fn = "ab"
    /\ stack[Len(stack) - 1].pc \in {"scout", "full"}
    /\ LET k == Len(stack) - 1
           f == stack[k]
           value == -Top.ret
           stk == Pop(stack)
           reads == (IF value > f.best THEN value ELSE f.best) > f.alpha
       IN IF f.pc = "scout" /\ NeedsResearch(value, f.alpha, f.beta)
          THEN /\ tree' = tree
               /\ stack' = Append([stk EXCEPT ![k] = [f EXCEPT !.pc = "full", !.value = value]],
                                  NewFrame("ab", f.depth - 1, -f.beta, -value, tree, garbage))
          ELSE \E len \in (IF reads /\ ~f.lpv.init THEN GarbageLengths ELSE {f.lpv.length}) :
                  LET r == ABAfterChild(tree, stk, k, value, len)
                  IN tree' = r.tree /\ stack' = r.stack
    /\ UNCHANGED prev_root
    /\ UNCHANGED <<tunerVars, libVars>>
    /\ UNCHANGED <<board, alloted_time, now, StartTime, EndTime, EvaluatingPlayer, gpc,
                   depth, garbage, result, aborted, completed, committed>>

\* search.c:96: quiescence_search has returned to the depth-0 call.
ABTailReturn ==
    /\ Running
    /\ Len(stack) >= 2
    /\ Top.pc = "ret"
    /\ stack[Len(stack) - 1].pc = "tail"
    /\ stack' = SetTop(Pop(stack), [stack[Len(stack) - 1] EXCEPT
                                       !.pc = "ret", !.ret = Top.ret,
                                       !.timedout = Top.timedout])
    /\ UNCHANGED prev_root
    /\ UNCHANGED <<tunerVars, libVars>>
    /\ UNCHANGED <<board, alloted_time, now, StartTime, EndTime, EvaluatingPlayer, gpc,
                   depth, tree, garbage, result, aborted, completed, committed>>

(***************************************************************************)
(* quiescence_search, search.c:157-198.                                    *)
(***************************************************************************)
\* search.c:167-169: the stand-pat score and the window it leaves.
StandPat(b, alpha) ==
    LET best == evaluate_board(b)
    IN [best |-> best, alpha |-> IF best > alpha THEN best ELSE alpha]

\* search.c:171-180.
QSSetup(tr, f, sp) ==
    LET tr1 == [tr EXCEPT !.ply = @ + 1]
    IN With(gen_all_captures(tr1.board), LAMBDA gen :
        [tree |-> tr1,
         frame |-> [f EXCEPT !.pc = "loop", !.best = sp.best, !.alpha = sp.alpha,
                             !.moves = basic_heuristic(tr1, gen, Len(gen)),
                             !.size = Len(gen), !.i = Len(gen) - 1]])

\* search.c:159-180.
QSEnter ==
    /\ Running
    /\ Top.fn = "qs"
    /\ Top.pc = "entry"
    /\ \E t \in now .. MaxTime :
        /\ now' = t
        /\ LET f == Top
               tr1 == [tree EXCEPT !.raw_nodes = @ + 1, !.quiescence_nodes = @ + 1]
               sp == StandPat(tr1.board, f.alpha)
           IN IF Expired(EndTime, t)
              THEN /\ tree' = tr1
                   /\ stack' = SetTop(stack, [f EXCEPT !.pc = "ret", !.timedout = TRUE,
                                                 !.ret = AbortScore(tr1, EvaluatingPlayer)])
                   /\ aborted' = TRUE
              ELSE IF Cutoff(sp.alpha, f.beta)
              THEN /\ tree' = tr1
                   /\ stack' = SetTop(stack, [f EXCEPT !.pc = "ret", !.ret = sp.best,
                                                 !.best = sp.best, !.alpha = sp.alpha])
                   /\ UNCHANGED aborted
              ELSE \E r \in {QSSetup(tr1, f, sp)} :
                      /\ tree' = r.tree
                      /\ stack' = SetTop(stack, r.frame)
                      /\ UNCHANGED aborted
    /\ UNCHANGED prev_root
    /\ UNCHANGED <<tunerVars, libVars>>
    /\ UNCHANGED <<board, alloted_time, StartTime, EndTime, EvaluatingPlayer, gpc,
                   depth, garbage, result, completed, committed>>

\* search.c:180-183 and 193-197: the next capture is tried, or the loop is left.
QSLoop ==
    /\ Running
    /\ Top.fn = "qs"
    /\ Top.pc \in {"loop", "break"}
    /\ LET f == Top
       IN IF f.pc = "loop" /\ f.i >= 0
          THEN LET m == At(f.moves, f.i)
                   b1 == apply_move(tree.board, m)
                   tr1 == [tree EXCEPT !.board = b1]
               IN IF is_not_in_check(b1, Other(b1.turn))
                  THEN /\ tree' = tr1
                       /\ stack' = Append(SetTop(stack, [f EXCEPT !.pc = "wait"]),
                                          NewFrame("qs", 0, -f.beta, -f.alpha, tr1, garbage))
                  ELSE /\ tree' = [tree EXCEPT !.board = revert_move(b1, m)]
                       /\ stack' = SetTop(stack, [f EXCEPT !.i = @ - 1])
          ELSE /\ tree' = [tree EXCEPT !.ply = @ - 1]
               /\ stack' = SetTop(stack, [f EXCEPT !.pc = "ret", !.ret = f.best])
    /\ UNCHANGED prev_root
    /\ UNCHANGED <<tunerVars, libVars>>
    /\ UNCHANGED <<board, alloted_time, now, StartTime, EndTime, EvaluatingPlayer, gpc,
                   depth, garbage, result, aborted, completed, committed>>

\* A best score that follows the last capture searched.
QSBestLastValue(best, value) == value

\* search.c:185: the best score after a capture returned value.
QSBest(best, value) == IF value > best THEN value ELSE best

\* search.c:183-193: a child call of quiescence_search has returned.
QSChildReturn ==
    /\ Running
    /\ Len(stack) >= 2
    /\ Top.pc = "ret"
    /\ stack[Len(stack) - 1].fn = "qs"
    /\ stack[Len(stack) - 1].pc = "wait"
    /\ LET k == Len(stack) - 1
           f == stack[k]
           m == At(f.moves, f.i)
           value == -Top.ret
           best1 == QSBest(f.best, value)
           alpha1 == IF best1 > f.alpha THEN best1 ELSE f.alpha
           cutoff == Cutoff(alpha1, f.beta)
           tr1 == IF cutoff THEN update_killer_heuristic(tree, m) ELSE tree
       IN /\ tree' = [tr1 EXCEPT !.board = BoardAfterSearch(tr1.board, m, cutoff)]
          /\ stack' = SetTop(Pop(stack),
                             [f EXCEPT !.value = value, !.best = best1, !.alpha = alpha1,
                                       !.pc = IF cutoff THEN "break" ELSE "loop",
                                       !.i = IF cutoff THEN @ ELSE @ - 1])
    /\ UNCHANGED prev_root
    /\ UNCHANGED <<tunerVars, libVars>>
    /\ UNCHANGED <<board, alloted_time, now, StartTime, EndTime, EvaluatingPlayer, gpc,
                   depth, garbage, result, aborted, completed, committed>>

Next ==
    \/ Start
    \/ IterCall
    \/ IterEnd
    \/ Return
    \/ ABEnter
    \/ ABLoop
    \/ ABChildReturn
    \/ ABTailReturn
    \/ QSEnter
    \/ QSLoop
    \/ QSChildReturn

Spec == Init /\ [][Next]_vars

\* The program runs on: a step is taken whenever one is possible.
SpecFair == Init /\ [][Next]_vars /\ WF_vars(Next)

(***************************************************************************)
(* Properties.                                                             *)
(***************************************************************************)
Returning == Running /\ Top.pc = "ret"

\* C1: when a call of alpha_beta_prune or quiescence_search returns, the
\* tree's board is the board the call was entered with, on every path
\* (loop completion, rejected move, cutoff break, expiry return).
C1_BoardRestored == Returning => tree.board = Top.board0

\* A call of alpha_beta_prune returns after a cutoff break with the board
\* restored.
C1_Witness ==
    /\ Returning
    /\ Top.fn = "ab"
    /\ ~Top.timedout
    /\ Top.depth >= 1
    /\ Cutoff(Top.alpha, Top.beta)
    /\ tree.board = Top.board0

\* C2: if the root position has a legal move, the move get_best_move
\* returns is legal in the root position.
C2_ReturnsLegalMove ==
    (gpc = "returned" /\ LegalMoves(board) # {}) => result \in LegalMoves(board)

\* Two principal variations hold the same line: same length, same moves below it.
SamePV(p, q) ==
    /\ p.length = q.length
    /\ \A n \in 1 .. MaxPly : n <= p.length => p.line[n] = q.line[n]

\* C3: an iteration cut short by the deadline leaves the principal variation
\* as the last completed iteration committed it, and get_best_move returns
\* the first move of that committed line.
C3_CommittedPVKept ==
    /\ (aborted /\ completed > 0) => SamePV(tree.principle_variation, committed)
    /\ (gpc = "returned" /\ completed > 0) => result = At(committed.line, 0)

\* Is every one of the first len moves of line legal in the position reached
\* by the moves before it, starting from b?
RECURSIVE LegalLine(_, _, _, _)
LegalLine(b, line, n, len) ==
    IF n > len THEN TRUE
    ELSE /\ IsLegal(b, line[n])
         /\ LegalLine(apply_move(b, line[n]), line, n + 1, len)

\* C4: when the root call of an iteration returns without any node having
\* seen the deadline pass, every move of the principal variation is legal in
\* sequence from the root position.
C4_PVLegal ==
    (Returning /\ Len(stack) = 1 /\ ~aborted)
        => LegalLine(board, tree.principle_variation.line, 1,
                     tree.principle_variation.length)

\* C5: alpha_beta_prune with depth >= 1, entered before the deadline on a
\* position without a legal move, returns 0 when the side to move is not in
\* check and -CheckMate when it is.
C5_TerminalScore ==
    (Returning /\ Top.fn = "ab" /\ Top.depth >= 1 /\ ~Top.timedout
        /\ LegalMoves(Top.board0) = {})
        => Top.ret = IF is_not_in_check(Top.board0, Top.board0.turn)
                     THEN 0 ELSE -CheckMate

\* A stalemated node with pseudo-legal moves, all rejected, returns 0.
C5_Witness ==
    /\ Returning
    /\ Top.fn = "ab"
    /\ Top.depth >= 1
    /\ ~Top.timedout
    /\ Top.size > 0
    /\ LegalMoves(Top.board0) = {}
    /\ is_not_in_check(Top.board0, Top.board0.turn)
    /\ Top.ret = 0

\* C6: a child search that ended on the deadline test at its entry, in
\* alpha_beta_prune or in the quiescence_search a depth-0 alpha_beta_prune
\* calls, shows its caller a PV of length -1, and the caller's own PV is
\* not changed for that child.
C6_AbortDiscarded ==
    /\ [](  (Returning /\ Len(stack) >= 2 /\ Top.fn = "ab" /\ Top.timedout)
              => PVOf(tree, stack, Len(stack)).length = -1)
    /\ [][ (Returning /\ Len(stack) >= 2 /\ Top.fn = "ab" /\ Top.timedout
              /\ Len(stack') = Len(stack) - 1)
              => PVOf(tree', stack', Len(stack')) = PVOf(tree, stack, Len(stack) - 1) ]_vars

\* C7: a quiescence_search call entered before the deadline returns at least
\* the static evaluation of the position it was entered with.
C7_StandPatLowerBound ==
    (Returning /\ Top.fn = "qs" /\ ~Top.timedout)
        => Top.ret >= evaluate_board(Top.board0)

\* A quiescence node returns its stand-pat score after a capture scored lower.
C7_Witness ==
    /\ Returning
    /\ Top.fn = "qs"
    /\ ~Top.timedout
    /\ Top.size > 0
    /\ Top.i < Top.size - 1
    /\ Top.value < evaluate_board(Top.board0)
    /\ Top.ret = evaluate_board(Top.board0)

\* C8: the deadline is the start time plus the budget the caller passed.
C8_DeadlineFromBudget ==
    [][ (gpc = "start" /\ gpc' = "loop") => EndTime' = StartTime' + alloted_time ]_vars

\* C9: get_best_move returns; the depth never exceeds MaxDepth, the root
\* call is made at that depth, and the depth grows by one from an iteration
\* to the next; no iteration starts after one ended
\* with the deadline past; a node entered with the deadline past returns at
\* once, generating no move and calling nothing.
C9_Terminates ==
    /\ <>(gpc = "returned")
    /\ [](depth <= MaxDepth)
    /\ [](Running => (stack[1].depth = depth /\ depth < MaxDepth))
    /\ []((gpc \in {"exit", "returned"}) => stack = << >>)
    /\ [][ /\ (gpc = "search" /\ gpc' = "loop") => depth' = depth + 1
           /\ (gpc = "search" /\ gpc' \notin {"search", "loop"}) =>
                 (gpc' = "exit" /\ depth' = depth)
           /\ (gpc = "search" /\ Len(stack) = 1 /\ stack' = << >>
                 /\ Expired(EndTime, now')) => gpc' = "exit"
           /\ (gpc = "exit") => gpc' = "returned"
           /\ (Running /\ Top.pc = "entry" /\ EndTime < now) =>
                 /\ Len(stack') = Len(stack)
                 /\ stack'[Len(stack')].pc = "ret"
                 /\ stack'[Len(stack')].moves = << >>
                 /\ tree'.board = tree.board ]_vars

\* get_best_move has returned from an iteration cut short by the deadline,
\* after at least one complete iteration.
C9_Witness == gpc = "returned" /\ aborted /\ completed >= 1 /\ EndTime < now

\* C16: every move alpha_beta_prune or quiescence_search stores in a killer
\* slot is a quiet move: whenever a row of killer_moves changes, the move
\* now in its slot 0 captures nothing.
C16_KillersQuiet ==
    [][ \A p \in 0 .. MaxPly :
          tree'.killer_moves[p] # tree.killer_moves[p]
              => IS_EMPTY(MOVE_GET_CAPTURE(At(tree'.killer_moves[p], 0))) ]_vars

\* The activations of stk that are depth-0 calls of alpha_beta_prune, which
\* hand off to quiescence_search at search.c:92-97.
HandOffs(stk) == { k \in 1 .. Len(stk) : stk[k].fn = "ab" /\ stk[k].depth = 0 }

InMoveLoop == Running /\ Top.pc = "loop"

\* C17 as stated: ply is never negative, a call returns with the ply it was
\* entered with, and in the move loop of a node reached by n nested calls
\* from the root call ply is n + 1.
C17_PlyCountsCalls ==
    /\ tree.ply >= 0
    /\ Returning => tree.ply = Top.ply0
    /\ InMoveLoop => tree.ply = Len(stack)

\* C17, amended: ply is never negative, a call returns with the ply it was
\* entered with, and in the move loop of a node reached by n nested calls
\* from the root call ply is n + 1 less the number of those calls that are
\* depth-0 calls of alpha_beta_prune.
C17_PlyCountsMoves ==
    /\ tree.ply >= 0
    /\ Returning => tree.ply = Top.ply0
    /\ InMoveLoop => tree.ply = Len(stack) - Cardinality(HandOffs(stack))

\* A quiescence node two captures deep, below a depth-0 alpha_beta_prune, is
\* in its move loop.
C17_Witness ==
    /\ InMoveLoop
    /\ Top.fn = "qs"
    /\ Len(stack) >= 4
    /\ HandOffs(stack) # {}
    /\ tree.ply = Len(stack) - 1

\* C18: alpha_beta_prune searches no further move once a legal move has been
\* searched and alpha >= beta, and quiescence_search generates no capture
\* when the larger of alpha and the stand-pat score is >= beta.
C18_CutoffAtEquality ==
    /\ (InMoveLoop /\ Top.fn = "ab" /\ Top.valid_size > 0 /\ Top.i < Top.size)
          => Top.alpha < Top.beta
    /\ (Running /\ Top.fn = "qs" /\ Top.pc \in {"loop", "wait", "break"})
          => StandPat(Top.board0, Top.alpha0).alpha < Top.beta0

\* C19: quiescence_search applies its captures in non-increasing order of
\* their basic_heuristic score: the capture about to be applied scores no
\* more than the one applied just before it.
C19_CapturesBestFirst ==
    (InMoveLoop /\ Top.fn = "qs" /\ 0 <= Top.i /\ Top.i < Top.size - 1)
        => HeuristicValue(tree, At(Top.moves, Top.i + 1))
              >= HeuristicValue(tree, At(Top.moves, Top.i))

\* The score the last completed iteration gave root move m, if it searched it.
ScoredBefore(m) ==
    \E n \in 1 .. Len(prev_root.moves) :
        prev_root.moves[n] = m /\ IsLegal(board, m)

PrevScore(m) ==
    prev_root.values[CHOOSE n \in 1 .. Len(prev_root.moves) : prev_root.moves[n] = m]

\* C20: at the root of the iteration after a completed one, the moves are
\* searched in non-increasing order of the scores the completed iteration
\* gave them.
C20_RootOrderedByScore ==
    (InMoveLoop /\ Len(stack) = 1 /\ completed >= 1)
        => \A a, b \in 1 .. Top.size :
              (a < b /\ ScoredBefore(Top.moves[a]) /\ ScoredBefore(Top.moves[b]))
                  => PrevScore(Top.moves[a]) >= PrevScore(Top.moves[b])

\* The calls of alpha_beta_prune that wait for a child call made at
\* search.c:118, 120 or 122.
Callers(stk) ==
    { k \in 1 .. Len(stk) - 1 : stk[k].fn = "ab" /\ stk[k].pc \in {"scout", "full"} }

\* C21: the first legal move of a node is searched with the window
\* (-beta, -alpha); a scout with (-alpha-1, -alpha) is made only for a legal
\* move after the first one and only when the top-ordered move was the stored
\* PV move; a scouted move is searched again, with (-beta, -value), only when
\* alpha < value < beta.
C21_FirstMoveFullWindow ==
    \A k \in Callers(stack) :
        LET f == stack[k]
            child == stack[k + 1]
        IN /\ f.valid_size = 1 =>
                 /\ f.pc = "full"
                 /\ child.alpha0 = -f.beta /\ child.beta0 = -f.alpha
           /\ f.pc = "scout" =>
                 /\ f.valid_size > 1
                 /\ f.first_node_was_pv
                 /\ child.alpha0 = -f.alpha - 1 /\ child.beta0 = -f.alpha
           /\ (f.pc = "full" /\ f.valid_size > 1 /\ IsScout(f)) =>
                 /\ f.alpha < f.value /\ f.value < f.beta
                 /\ child.alpha0 = -f.beta /\ child.beta0 = -f.value

\* A child call of alpha_beta_prune has returned to a caller that goes on
\* to search.c:125-139 and reads lpv there.
ReadsChildPV ==
    /\ Running
    /\ Len(stack) >= 2
    /\ Top.fn = "ab" /\ Top.pc = "ret"
    /\ stack[Len(stack) - 1].fn = "ab"
    /\ stack[Len(stack) - 1].pc \in {"scout", "full"}
    /\ LET f == stack[Len(stack) - 1]
           value == -Top.ret
       IN /\ ~(f.pc = "scout" /\ NeedsResearch(value, f.alpha, f.beta))
          /\ (IF value > f.best THEN value ELSE f.best) > f.alpha

\* C24: when alpha_beta_prune reads lpv after a child call, the child call
\* that has just returned assigned the length it reads: no length left by
\* an earlier sibling and no uninitialised length is read.
C24_ChildPVWritten == ReadsChildPV => Top.wrote

(***************************************************************************)
(* updateGradient, texel.c:273-295.  The parallel region runs on NTHREADS  *)
(* threads.  The loop over the batch is shared out by schedule(static,     *)
(* BATCHSIZE / NPARTITIONS) and ends in the barrier of the omp for; then   *)
(* every thread adds its local vector to the shared gradient, cell by      *)
(* cell, with plain loads and stores.  Scores are integers here: an        *)
(* entry's error and its phase factors (in 24ths) are drawn from small     *)
(* sets.                                                                   *)
(***************************************************************************)
NTHREADS == 2
NTERMS == 2
BATCHSIZE == 2
NPARTITIONS == 2

MG == 0
EG == 1
PHASE_NB == 2

Threads == 1 .. NTHREADS
NCELLS == NTERMS * PHASE_NB
ZeroVector == [i \in 0 .. NTERMS - 1 |-> [j \in MG .. EG |-> 0]]

\* No search is running.
SearchIdle ==
    /\ board = Place(ColourWhite, (0 :> WK) @@ (2 :> BK))
    /\ alloted_time = 0
    /\ now = 0
    /\ StartTime = 0
    /\ EndTime = 0
    /\ EvaluatingPlayer = ColourWhite
    /\ gpc = "idle"
    /\ depth = 0
    /\ garbage = NoMove
    /\ tree = [ply |-> 0, raw_nodes |-> 0, alpha_beta_nodes |-> 0,
               quiescence_nodes |-> 0, board |-> board,
               principle_variation |-> UninitPV(garbage),
               killer_moves |-> [p \in 0 .. MaxPly |-> <<garbage, garbage, garbage>>],
               depth_one_values |-> [n \in 1 .. MaxMoves |-> 0]]
    /\ stack = << >>
    /\ result = NoMove
    /\ aborted = FALSE
    /\ completed = 0
    /\ committed = UninitPV(garbage)
    /\ prev_root = [moves |-> << >>, values |-> << >>]

\* The entries of a batch: the tuples (term index, coefficient), the phase
\* in 24ths before scaling, and the value singleLinearError gives the entry.
TupleLists ==
    { <<[index |-> 0, coeff |-> 1]>>,
      <<[index |-> 0, coeff |-> 2], [index |-> NTERMS - 1, coeff |-> -1]>> }

EntryChoices ==
    { [tuples |-> tl, ntuples |-> Len(tl), phase24 |-> ph, error |-> e] :
        tl \in TupleLists, ph \in {8}, e \in {1, -2} }

\* texel.c:198-199, in 24ths.
Factor(te, k) == IF k = MG THEN 24 - te.phase24 ELSE te.phase24

GradInit ==
    /\ tes \in [0 .. BATCHSIZE - 1 -> EntryChoices]
    /\ gradient0 \in {ZeroVector, [i \in 0 .. NTERMS - 1 |-> [j \in MG .. EG |-> 1]]}
    /\ gradient = gradient0
    /\ local = [t \in Threads |-> ZeroVector]
    /\ upc = "call"
    /\ tpc = [t \in Threads |-> "idle"]
    /\ tnext = [t \in Threads |-> 0]
    /\ tcell = [t \in Threads |-> 0]
    /\ treg = [t \in Threads |-> 0]

InitGrad == SearchIdle /\ GradInit /\ LibIdle

\* texel.c:275-280: the region is entered; every thread zeroes its local vector.
GradFork ==
    /\ upc = "call"
    /\ upc' = "parallel"
    /\ local' = [t \in Threads |-> ZeroVector]
    /\ tpc' = [t \in Threads |-> "for"]
    /\ tnext' = [t \in Threads |-> 0]
    /\ UNCHANGED <<tes, gradient, gradient0, tcell, treg>>
    /\ UNCHANGED <<searchVars, libVars>>

\* schedule(static, chunk): iteration n of the loop belongs to thread
\* (n div chunk) mod NTHREADS, counted from 1.
OwnerOf(n) == ((n \div (BATCHSIZE \div NPARTITIONS)) % NTHREADS) + 1

\* texel.c:286-288: the local vector after the tuples of entry te from j on.
RECURSIVE AddTuples(_, _, _)
AddTuples(loc, te, j) ==
    IF j >= te.ntuples THEN loc
    ELSE LET tu == At(te.tuples, j)
         IN AddTuples([loc EXCEPT ![tu.index] =
                          [k \in MG .. EG |-> @[k] + te.error * Factor(te, k) * tu.coeff]],
                      te, j + 1)

\* texel.c:282-289: a thread looks at the next index of the batch (batch 0)
\* and, if the index is its own, adds the entry to its local vector.
GradEntry(t) ==
    /\ upc = "parallel"
    /\ tpc[t] = "for"
    /\ IF tnext[t] < BATCHSIZE
       THEN /\ local' = IF OwnerOf(tnext[t]) = t
                        THEN [local EXCEPT ![t] = AddTuples(@, tes[tnext[t]], 0)]
                        ELSE local
            /\ tnext' = [tnext EXCEPT ![t] = @ + 1]
            /\ tpc' = tpc
       ELSE /\ tpc' = [tpc EXCEPT ![t] = "barrier"]
            /\ UNCHANGED <<local, tnext>>
    /\ UNCHANGED <<tes, gradient, gradient0, upc, tcell, treg>>
    /\ UNCHANGED <<searchVars, libVars>>

\* The barrier that ends the omp for: a thread goes on once none is in the loop.
GradBarrier(t) ==
    /\ upc = "parallel"
    /\ tpc[t] = "barrier"
    /\ \A u \in Threads : tpc[u] # "for"
    /\ tpc' = [tpc EXCEPT ![t] = "load"]
    /\ tcell' = [tcell EXCEPT ![t] = 0]
    /\ UNCHANGED <<tes, gradient, gradient0, local, upc, tnext, treg>>
    /\ UNCHANGED <<searchVars, libVars>>

CellTerm(c) == c \div PHASE_NB
CellPhase(c) == c % PHASE_NB

\* texel.c:291-293: the read of gradient[i][j], or the end of the loops.
GradLoad(t) ==
    /\ upc = "parallel"
    /\ tpc[t] = "load"
    /\ IF tcell[t] < NCELLS
       THEN /\ treg' = [treg EXCEPT ![t] = gradient[CellTerm(tcell[t])][CellPhase(tcell[t])]]
            /\ tpc' = [tpc EXCEPT ![t] = "store"]
       ELSE /\ tpc' = [tpc EXCEPT ![t] = "done"]
            /\ treg' = treg
    /\ UNCHANGED <<tes, gradient, gradient0, local, upc, tnext, tcell>>
    /\ UNCHANGED <<searchVars, libVars>>

\* texel.c:293: the write of gradient[i][j].
GradStore(t) ==
    /\ upc = "parallel"
    /\ tpc[t] = "store"
    /\ gradient' = [gradient EXCEPT ![CellTerm(tcell[t])][CellPhase(tcell[t])] =
                       treg[t] + local[t][CellTerm(tcell[t])][CellPhase(tcell[t])]]
    /\ tcell' = [tcell EXCEPT ![t] = @ + 1]
    /\ tpc' = [tpc EXCEPT ![t] = "load"]
    /\ UNCHANGED <<tes, gradient0, local, upc, tnext, treg>>
    /\ UNCHANGED <<searchVars, libVars>>

\* texel.c:294-295: the region ends when every thread is through.
GradJoin ==
    /\ upc = "parallel"
    /\ \A t \in Threads : tpc[t] = "done"
    /\ upc' = "returned"
    /\ UNCHANGED <<tes, gradient, gradient0, local, tpc, tnext, tcell, treg>>
    /\ UNCHANGED <<searchVars, libVars>>

NextGrad ==
    \/ GradFork
    \/ \E t \in Threads : GradEntry(t)
    \/ \E t \in Threads : GradBarrier(t)
    \/ \E t \in Threads : GradLoad(t)
    \/ \E t \in Threads : GradStore(t)
    \/ GradJoin

SpecGrad == InitGrad /\ [][NextGrad]_vars

RECURSIVE SumLocal(_, _, _)
SumLocal(T, i, j) ==
    IF T = {} THEN 0
    ELSE LET t == CHOOSE u \in T : TRUE
         IN local[t][i][j] + SumLocal(T \ {t}, i, j)

\* C10: after the parallel region of updateGradient every cell of the shared
\* gradient is its value at the call plus the sum of that cell over the
\* threads' local vectors, under every interleaving of the threads.
C10_NoLostUpdate ==
    upc = "returned" =>
        \A i \in 0 .. NTERMS - 1 : \A j \in MG .. EG :
            gradient[i][j] = gradient0[i][j] + SumLocal(Threads, i, j)

(***************************************************************************)
(* evaluate_board on its own: every placement of up to MaxPawns pawns and  *)
(* one knight or rook a side on the squares between the two kings, with    *)
(* either side to move.                                                    *)
(***************************************************************************)
MaxPawns == 2

WP == MakePiece(PawnFlag, ColourWhite)
BP == MakePiece(PawnFlag, ColourBlack)

Placements ==
    { sq \in [Squares -> {Empty, WK, BK, WP, BP, WN, BR}] :
        /\ sq[0] = WK
        /\ sq[NumSquares - 1] = BK
        /\ \A s \in 1 .. NumSquares - 2 : sq[s] \notin {WK, BK}
        /\ Cardinality({ s \in Squares : sq[s] = WP }) <= MaxPawns
        /\ Cardinality({ s \in Squares : sq[s] = BP }) <= MaxPawns
        /\ Cardinality({ s \in Squares : sq[s] = WN }) <= 1
        /\ Cardinality({ s \in Squares : sq[s] = BR }) <= 1 }

EvalInit ==
    /\ eboard \in { [turn |-> t, squares |-> sq] :
                      t \in {ColourWhite, ColourBlack}, sq \in Placements }
    /\ evalue = 0

InitEval ==
    /\ SearchIdle /\ TunerIdle /\ EvalInit /\ ZobristIdle /\ EntriesIdle /\ TuneIdle
    /\ MemoryIdle

\* search.c:200-241: the call is made and the value kept.
EvalCall ==
    /\ evalue' = evaluate_board(eboard)
    /\ UNCHANGED <<eboard, notEval>>

\* The caller hands over the same placement with the other side to move.
EvalFlip ==
    /\ eboard' = [eboard EXCEPT !.turn = Other(@)]
    /\ UNCHANGED <<evalue, notEval>>

NextEval == EvalCall \/ EvalFlip

SpecEval == InitEval /\ [][NextEval]_vars

\* C13: the score of a placement with one side to move is the negation of
\* its score with the other side to move: after the side to move is flipped,
\* a new call returns the negation of the value the call before returned.
C13_SideToMoveRelative ==
    [][ (evalue = evaluate_board(eboard) /\ eboard'.turn # eboard.turn)
            => evaluate_board(eboard') = -evalue ]_vars

(***************************************************************************)
(* initZobrist, zobrist.c:45-91: the castle keys.  A key is KeyBits wide   *)
(* and rand64 returns any non-zero key.  The piece, en-passant and turn    *)
(* keys take other draws and do not touch ZobristCastleKeys.               *)
(***************************************************************************)
KeyBits == 2

WHITE_KING_RIGHTS == 1
WHITE_QUEEN_RIGHTS == 2
BLACK_KING_RIGHTS == 4
BLACK_QUEEN_RIGHTS == 8

\* The order of the assignments at zobrist.c:68-71.
Rights == <<WHITE_KING_RIGHTS, WHITE_QUEEN_RIGHTS, BLACK_KING_RIGHTS, BLACK_QUEEN_RIGHTS>>

\* a ^ b on unsigned integers.
RECURSIVE Xor(_, _)
Xor(a, b) ==
    IF a = 0 THEN b
    ELSE IF b = 0 THEN a
    ELSE ((a + b) % 2) + 2 * Xor(a \div 2, b \div 2)

\* mask & right, for a right of one bit.
HasRight(mask, right) == (mask \div right) % 2 = 1

\* zobrist.c:32-43: xorshift64* from a non-zero seed never returns 0.
Rand64Values == 1 .. 2 ^ KeyBits - 1

InitZobrist ==
    /\ SearchIdle /\ TunerIdle /\ EvalIdle /\ EntriesIdle /\ TuneIdle /\ MemoryIdle
    /\ ZobristCastleKeys = [k \in 0 .. 15 |-> 0]
    /\ zpc = "assign"
    /\ cr = 0
    /\ drawn = << >>

\* zobrist.c:68-71, one assignment.
ZobristAssign ==
    /\ zpc = "assign"
    /\ \E r \in Rand64Values :
          /\ ZobristCastleKeys' =
                [ZobristCastleKeys EXCEPT ![Rights[Len(drawn) + 1]] = r]
          /\ drawn' = Append(drawn, r)
    /\ zpc' = IF Len(drawn) + 1 = Len(Rights) THEN "combine" ELSE "assign"
    /\ UNCHANGED <<cr, notZobrist>>

\* One `if` of zobrist.c:76-86, on the table as the ones before it left it.
CombineRight(keys, mask, right) ==
    IF HasRight(mask, right)
    THEN [keys EXCEPT ![mask] = Xor(keys[mask], keys[right])]
    ELSE keys

\* zobrist.c:74-87, one pass of the loop body.
ZobristCombine ==
    /\ zpc = "combine"
    /\ cr < 16
    /\ ZobristCastleKeys' =
          CombineRight(CombineRight(CombineRight(CombineRight(
              ZobristCastleKeys, cr, WHITE_KING_RIGHTS), cr, WHITE_QUEEN_RIGHTS),
              cr, BLACK_KING_RIGHTS), cr, BLACK_QUEEN_RIGHTS)
    /\ cr' = cr + 1
    /\ UNCHANGED <<zpc, drawn, notZobrist>>

\* zobrist.c:74: the loop test fails and the castle keys are final.
ZobristLoopExit ==
    /\ zpc = "combine"
    /\ cr = 16
    /\ zpc' = "done"
    /\ UNCHANGED <<ZobristCastleKeys, cr, drawn, notZobrist>>

NextZobrist == ZobristAssign \/ ZobristCombine \/ ZobristLoopExit

SpecZobrist == InitZobrist /\ [][NextZobrist]_vars

\* The xor of the drawn primitives over the rights set in mask.
XorOfRights(mask) ==
    LET Part(n) == IF HasRight(mask, Rights[n]) THEN drawn[n] ELSE 0
    IN  Xor(Xor(Part(1), Part(2)), Xor(Part(3), Part(4)))

\* C12: after initZobrist, the castle key of every rights mask is the xor of
\* the drawn primitive keys over exactly the rights set in the mask; so each
\* single-right entry still holds the value drawn for it.
C12_CastleKeysCombined ==
    zpc = "done" => \A mask \in 0 .. 15 : ZobristCastleKeys[mask] = XorOfRights(mask)

(***************************************************************************)
(* initTexelEntries, texel.c:155-228.  A line of FENS is its text, one     *)
(* character to a string, and the counts of queens, rooks, bishops and     *)
(* knights of the quiet position that boardFromFEN and qsearch reach from  *)
(* it.  result is kept in halves; phase and the factors in 24ths.          *)
(***************************************************************************)
NPOSITIONS == 3
MaxQueens == 3

FenFields == { <<"8", "/", "8">>, <<"p", "1", "/", "2", "p">> }

ResultTokens ==
    { <<"1", "-", "0">>, <<"0", "-", "1">>, <<"1", "/", "2">>, <<"*">> }

\* Each kind of piece other than the queen is absent or stands as at the start.
Lines ==
    { [fen |-> f, token |-> t, queens |-> q, rooks |-> r, bishops |-> b, knights |-> n] :
        f \in FenFields, t \in ResultTokens,
        q \in 0 .. MaxQueens, r \in {0, 4}, b \in {0, 4}, n \in {0, 4} }

\* The characters fgets puts in line[].
Text(l) == l.fen \o <<" ">> \o l.token

\* strstr(text, pat) != NULL.
strstr(text, pat) ==
    \E k \in 0 .. Len(text) - Len(pat) : \A j \in 1 .. Len(pat) : text[k + j] = pat[j]

\* texel.c:180-183: twice the result, or -1 where the line is rejected.
ParseResult(text) ==
    IF strstr(text, <<"1", "-", "0">>) THEN 2
    ELSE IF strstr(text, <<"0", "-", "1">>) THEN 0
    ELSE IF strstr(text, <<"1", "/", "2">>) THEN 1
    ELSE -1

\* texel.c:192-195.
RawPhase(l) == 24 - 4 * l.queens - 2 * l.rooks - 1 * l.bishops - 1 * l.knights

\* texel.c:180-202: the entry of line l; phase is 24 times the value of
\* (phase * 256 + 12) / 24.0.
MakeEntry(l) ==
    [result |-> ParseResult(Text(l)),
     phase24 |-> RawPhase(l),
     phase |-> RawPhase(l) * 256 + 12]

InitEntries ==
    /\ SearchIdle /\ TunerIdle /\ EvalIdle /\ ZobristIdle /\ TuneIdle /\ MemoryIdle
    /\ tokens = << >>
    /\ ipc = "loop"

\* texel.c:170-173: fgets returns NULL.
EntryUnreadable ==
    /\ ipc = "loop"
    /\ Len(tes) < NPOSITIONS
    /\ ipc' = "unable_to_read"
    /\ UNCHANGED <<tes, tokens, notEntries>>

\* texel.c:167-225, one pass of the loop body on the line fgets returns.
EntryRead ==
    /\ ipc = "loop"
    /\ Len(tes) < NPOSITIONS
    /\ \E l \in Lines :
          /\ tokens' = Append(tokens, l.token)
          /\ IF ParseResult(Text(l)) = -1
             THEN ipc' = "cannot_parse" /\ UNCHANGED tes
             ELSE tes' = Append(tes, MakeEntry(l)) /\ UNCHANGED ipc
    /\ UNCHANGED notEntries

\* texel.c:167, 227: the loop test fails and the file is closed.
EntryLoopExit ==
    /\ ipc = "loop"
    /\ Len(tes) = NPOSITIONS
    /\ ipc' = "done"
    /\ UNCHANGED <<tes, tokens, notEntries>>

NextEntries == EntryUnreadable \/ EntryRead \/ EntryLoopExit

SpecEntries == InitEntries /\ [][NextEntries]_vars

\* C14: every entry initTexelEntries stores has a phase in [0, 256], also
\* when the phase is kept as an integer, and phase factors that sum to 1.
C14_PhaseInRange ==
    \A k \in 1 .. Len(tes) :
        /\ -24 < tes[k].phase
        /\ tes[k].phase < 257 * 24
        /\ Factor(tes[k], MG) + Factor(tes[k], EG) = 24

\* The result a token stands for, in halves.
TokenResult(t) ==
    IF t = <<"1", "-", "0">> THEN 2
    ELSE IF t = <<"0", "-", "1">> THEN 0
    ELSE IF t = <<"1", "/", "2">> THEN 1
    ELSE -1

\* C15: a line whose result token is not one of 1-0, 0-1, 1/2 ends the
\* process with no entry stored for it, as does a line that cannot be read;
\* a line with a recognized token is stored with the result of that token.
C15_ResultByToken ==
    /\ \A k \in 1 .. Len(tokens) :
          IF TokenResult(tokens[k]) = -1
          THEN k = Len(tokens) /\ Len(tes) = k - 1 /\ ipc = "cannot_parse"
          ELSE Len(tes) >= k /\ tes[k].result = TokenResult(tokens[k])
    /\ ipc = "unable_to_read" => Len(tes) = Len(tokens)

(***************************************************************************)
(* The training loop of runTexelTuning, texel.c:123-152.  An entry is      *)
(* known by the index initTexelEntries stored it at.  updateGradient is    *)
(* taken by the entries it reads, texel.c:275-284; the gradient and the    *)
(* parameters it feeds are locals that the loop does not read back.  The   *)
(* loop is followed for MaxIterations passes.                              *)
(***************************************************************************)
MaxIterations == 3
REPORTING == 2

\* double best = 1e6.
BestInit == 1000000

\* The values completeLinearError returns.
Errors == {1, 2}

Positions == 0 .. NPOSITIONS - 1

InitTune ==
    /\ SearchIdle /\ EvalIdle /\ ZobristIdle /\ EntriesIdle /\ MemoryIdle
    /\ tes = [k \in Positions |-> k]
    /\ gradient = << >> /\ gradient0 = << >> /\ local = << >> /\ upc = "idle"
    /\ tpc = << >> /\ tnext = << >> /\ tcell = << >> /\ treg = << >>
    /\ rpc = "shuffle"
    /\ iteration = -1
    /\ best_error = BestInit
    /\ drops = 0
    /\ si = 0
    /\ batch = 0
    /\ processed = [k \in Positions |-> 0]
    /\ errors = << >>

\* texel.c:299-307, one pass of the loop body of shuffleTexelEntries.
TuneShuffle ==
    /\ rpc = "shuffle"
    /\ si < NPOSITIONS
    /\ \E A, B \in Positions :
          tes' = [tes EXCEPT ![A] = tes[B], ![B] = tes[A]]
    /\ si' = si + 1
    /\ UNCHANGED <<rpc, iteration, best_error, drops, batch, processed, errors, notTune>>

\* texel.c:129-141: the shuffle is over; every REPORTING passes the error is
\* taken and the rate dropped where it rose; then the batches start.
TuneReport ==
    /\ rpc = "shuffle"
    /\ si = NPOSITIONS
    /\ iteration' = iteration + 1
    /\ IF (iteration + 1) % REPORTING = 0
       THEN \E error \in Errors :
               /\ drops' = IF error > best_error THEN drops + 1 ELSE drops
               /\ best_error' = error
               /\ errors' = Append(errors, error)
       ELSE UNCHANGED <<best_error, drops, errors>>
    /\ rpc' = "batches"
    /\ batch' = 0
    /\ UNCHANGED <<tes, si, processed, notTune>>

\* texel.c:273-276: the indices updateGradient reads for a batch.
BatchIndices(b) == b * BATCHSIZE .. b * BATCHSIZE + BATCHSIZE - 1

\* texel.c:141-151, one batch.
TuneBatch ==
    /\ rpc = "batches"
    /\ batch < NPOSITIONS \div BATCHSIZE
    /\ processed' =
          [k \in Positions |->
              processed[k] + Cardinality({ n \in BatchIndices(batch) : tes[n] = k })]
    /\ batch' = batch + 1
    /\ UNCHANGED <<tes, rpc, iteration, best_error, drops, si, errors, notTune>>

\* The batches of the pass are over.
PassOver == rpc = "batches" /\ batch = NPOSITIONS \div BATCHSIZE

\* texel.c:123, 141: the batch loop ends and while (1) goes round.
TuneLoopBack ==
    /\ PassOver
    /\ iteration + 1 < MaxIterations
    /\ rpc' = "shuffle"
    /\ si' = 0
    /\ processed' = [k \in Positions |-> 0]
    /\ UNCHANGED <<tes, iteration, best_error, drops, batch, errors, notTune>>

NextTune == TuneShuffle \/ TuneReport \/ TuneBatch \/ TuneLoopBack

SpecTune == InitTune /\ [][NextTune]_vars

\* C11: the array stays a permutation of the entries, and when the batches
\* of a pass are over every entry has been read by exactly one updateGradient
\* call of the pass.
C11_EachEntryOnce ==
    /\ rpc # "idle" => \A k \in Positions : \E n \in Positions : tes[n] = k
    /\ PassOver => \A k \in Positions : processed[k] = 1

\* The lowest of BestInit and the errors es.
Lowest(es) ==
    CHOOSE m \in {BestInit} \cup { es[n] : n \in 1 .. Len(es) } :
        \A n \in 1 .. Len(es) : m <= es[n] /\ m <= BestInit

\* A step that takes the full-dataset error: a reporting tick.
Tick == Len(errors') = Len(errors) + 1

\* C23: the learning rate changes only on a reporting tick; on a tick it is
\* divided by LRDROPRATE exactly when the tick's error is above the lowest
\* error of the earlier ticks, and best then holds the lowest error so far.
C23_RateDropsOnRegression ==
    [][ /\ ~Tick => drops' = drops
        /\ Tick => /\ drops' = (IF errors'[Len(errors')] > Lowest(errors)
                                THEN drops + 1 ELSE drops)
                   /\ best_error' = Lowest(errors') ]_vars

(***************************************************************************)
(* updateMemory, texel.c:254-271, called once for each of the NPOSITIONS   *)
(* entries (texel.c:217) with any size from 0 to STACKSIZE.  A pointer     *)
(* into the arena is the chunk calloc returned and an offset in tuples;    *)
(* calloc returns a fresh chunk.                                           *)
(***************************************************************************)

\* texel.c:110-112: runTexelTuning has allocated the first chunk.
InitMemory ==
    /\ SearchIdle /\ TunerIdle /\ EvalIdle /\ ZobristIdle /\ EntriesIdle /\ TuneIdle
    /\ TupleStack = [chunk |-> 1, off |-> 0]
    /\ TupleStackSize = STACKSIZE
    /\ chunks = 1
    /\ slices = << >>

\* A refill taken only once the chunk is used up.
NeedsChunkWhenEmpty(size, left) == size > 0 /\ left = 0

\* texel.c:257: the test for a refill.
NeedsChunk(size, left) == size > left

\* texel.c:254-271.
updateMemory ==
    /\ Len(slices) < NPOSITIONS
    /\ \E size \in 0 .. STACKSIZE :
          \E refill \in {NeedsChunk(size, TupleStackSize)} :
             LET base == IF refill THEN [chunk |-> chunks + 1, off |-> 0] ELSE TupleStack
                 left == IF refill THEN STACKSIZE ELSE TupleStackSize
             IN  /\ chunks' = IF refill THEN chunks + 1 ELSE chunks
                 /\ slices' = Append(slices, [tuples |-> base, ntuples |-> size])
                 /\ TupleStack' = [base EXCEPT !.off = @ + size]
                 /\ TupleStackSize' = left - size
    /\ UNCHANGED notMemory

NextMemory == updateMemory

SpecMemory == InitMemory /\ [][NextMemory]_vars

\* The tuples of a slice: the chunk and the offsets it covers.
SliceTuples(sl) ==
    { <<sl.tuples.chunk, o>> : o \in sl.tuples.off .. sl.tuples.off + sl.ntuples - 1 }

\* C22: every entry's slice lies inside one chunk that calloc returned, the
\* slices of different entries share no tuple, and TupleStackSize is never
\* negative and is the number of tuples left after TupleStack in its chunk.
C22_SlicesInsideChunks ==
    /\ \A n \in 1 .. Len(slices) :
          /\ slices[n].tuples.chunk \in 1 .. chunks
          /\ slices[n].tuples.off >= 0
          /\ slices[n].tuples.off + slices[n].ntuples <= STACKSIZE
    /\ \A n, m \in 1 .. Len(slices) :
          n # m => SliceTuples(slices[n]) \cap SliceTuples(slices[m]) = {}
    /\ TupleStackSize >= 0
    /\ TupleStackSize = STACKSIZE - TupleStack.off
    /\ TupleStack.chunk = chunks

\* A request larger than what was left has been served from a fresh chunk,
\* after an entry served from the first.
C22_Witness ==
    /\ Len(slices) >= 2
    /\ chunks >= 2
    /\ slices[1].ntuples > 0
    /\ \E n \in 2 .. Len(slices) :
          /\ slices[n].tuples = [chunk |-> 2, off |-> 0]
          /\ slices[n].ntuples > STACKSIZE - slices[1].ntuples

====
